---------------------------- MODULE Spec2Model ----------------------------
(***************************************************************************)
(* A model of pkg/util/lb/lb.go of the loadbalancer-controller: the pod    *)
(* status deriver (ComputePodStatus), the status comparators               *)
(* (PodStatusesEqual, ProxyStatusEqual, IpvsdrProviderStatusEqual), the    *)
(* replica policy (CalculateReplicas) and the identifier parser            *)
(* (SplitNamespaceAndNameByDot).                                           *)
(*                                                                         *)
(* Every function of the file is pure.  Each specification below draws the *)
(* arguments of one family of functions in its initial states and has one  *)
(* action per function, which applies it and stores what it returns.       *)
(*                                                                         *)
(* Go values: a pointer is a sequence, <<>> for nil and <<v>> for a        *)
(* pointer to v; a slice is a sequence; a string that the code takes apart *)
(* (the argument of strings.Split) is a sequence of one-character strings. *)
(***************************************************************************)
EXTENDS Integers, Sequences, FiniteSets, TLC

VARIABLES
    pc,                \* "start" before the call, "done" after it returned
    fn,                \* the function the caller is about to call / has called
    pod,               \* ComputePodStatus: its argument, *v1.Pod
    status,            \* ComputePodStatus: the lbapi.PodStatus it returned
    a, b,              \* the comparators: their two arguments
    equal,             \* the comparators: the bool returned
    lb,                \* CalculateReplicas: its argument, *lbapi.LoadBalancer
    replicas,          \* CalculateReplicas: first result (int32)
    needNodeAffinity,  \* CalculateReplicas: second result (bool)
    value,             \* SplitNamespaceAndNameByDot: its argument
    namespace, name,   \* SplitNamespaceAndNameByDot: the strings returned
    err                \* SplitNamespaceAndNameByDot: the error returned

vars == <<pc, fn, pod, status, a, b, equal, lb, replicas, needNodeAffinity,
          value, namespace, name, err>>

podVars     == <<pod, status>>
equalVars   == <<a, b, equal>>
replicaVars == <<lb, replicas, needNodeAffinity>>
splitVars   == <<value, namespace, name, err>>

---------------------------------------------------------------------------
(* Bounds of the model. *)

MaxContainers == 2      \* containers declared in a pod spec: 0..MaxContainers
MaxStatuses   == 2      \* container statuses observed on a pod: 0..MaxStatuses
MaxReplicas   == 3      \* declared replicas: 0..MaxReplicas
MaxNodes      == 3      \* explicit node names: 0..MaxNodes
MaxLen        == 4      \* characters of an identifier: 0..MaxLen

---------------------------------------------------------------------------
(* Go values. *)

Nil == <<>>
Ref(v) == <<v>>
Deref(p) == p[1]

\* int32(x) of a Go int x.  The conversion wraps modulo 2^32; the ints converted
\* here are lengths of slices and counts of their elements, far below 2^31,
\* where it returns x (and TLC's integers are themselves 32 bits wide)
Int32(x) == x

NodeUnreachablePodReason == "NodeLost"

\* the value of a variable of a family the specification at hand does not call
Unused == "unused"

---------------------------------------------------------------------------
(* ComputePodStatus *)

\* fmt.Sprintf(format + "%d", n) for the two formats the function uses
Sprintf(prefix, n) == prefix \o ToString(n)

\* ContainerStep gone wrong: restarts and readyContainers exchanged
ContainerStepRestartsAsReady(container, acc) ==
    LET st == container.State
        swapped == [acc EXCEPT !.readyContainers = @ + container.RestartCount]
    IN  IF st.Waiting # Nil /\ Deref(st.Waiting).Reason # ""
        THEN [swapped EXCEPT !.reason = Deref(st.Waiting).Reason]
        ELSE IF st.Terminated # Nil /\ Deref(st.Terminated).Reason # ""
        THEN [swapped EXCEPT !.reason = Deref(st.Terminated).Reason]
        ELSE IF st.Terminated # Nil /\ Deref(st.Terminated).Reason = ""
        THEN IF Deref(st.Terminated).Signal # 0
             THEN [swapped EXCEPT !.reason = Sprintf("Signal:", Deref(st.Terminated).Signal)]
             ELSE [swapped EXCEPT !.reason = Sprintf("ExitCode:", Deref(st.Terminated).ExitCode)]
        ELSE IF container.Ready /\ st.Running # Nil
        THEN [swapped EXCEPT !.restarts = @ + 1]
        ELSE swapped

\* one iteration of the loop over pod.Status.ContainerStatuses; acc holds the
\* locals restarts, readyContainers and reason
ContainerStep(container, acc) ==
    LET st == container.State
        restarts == acc.restarts + container.RestartCount
    IN  IF st.Waiting # Nil /\ Deref(st.Waiting).Reason # ""
        THEN [acc EXCEPT !.restarts = restarts,
                         !.reason = Deref(st.Waiting).Reason]
        ELSE IF st.Terminated # Nil /\ Deref(st.Terminated).Reason # ""
        THEN [acc EXCEPT !.restarts = restarts,
                         !.reason = Deref(st.Terminated).Reason]
        ELSE IF st.Terminated # Nil /\ Deref(st.Terminated).Reason = ""
        THEN IF Deref(st.Terminated).Signal # 0
             THEN [acc EXCEPT !.restarts = restarts,
                              !.reason = Sprintf("Signal:", Deref(st.Terminated).Signal)]
             ELSE [acc EXCEPT !.restarts = restarts,
                              !.reason = Sprintf("ExitCode:", Deref(st.Terminated).ExitCode)]
        ELSE IF container.Ready /\ st.Running # Nil
        THEN [acc EXCEPT !.restarts = restarts,
                         !.readyContainers = acc.readyContainers + 1]
        ELSE [acc EXCEPT !.restarts = restarts]

\* ScanContainerStatuses gone wrong: the scan runs from index 0 up, so that
\* the highest index writes last
RECURSIVE ScanForwardFrom(_, _, _)
ScanForwardFrom(cs, k, acc) ==
    IF k > Len(cs) THEN acc
    ELSE ScanForwardFrom(cs, k + 1, ContainerStep(cs[k], acc))

ScanContainerStatusesForward(cs, i, acc) == ScanForwardFrom(cs, 1, acc)

\* for i := len(cs) - 1; i >= 0; i-- { ... }; Go's index i is cs[i + 1] here,
\* so the scan starts at i = Len(cs) and stops below 1
RECURSIVE ScanContainerStatuses(_, _, _)
ScanContainerStatuses(cs, i, acc) ==
    IF i < 1 THEN acc
    ELSE ScanContainerStatuses(cs, i - 1, ContainerStep(cs[i], acc))

\* reason := string(pod.Status.Phase), overridden by a non-empty Status.Reason
InitialReason(p) ==
    IF p.Status.Reason # "" THEN p.Status.Reason ELSE p.Status.Phase

\* IsReady gone wrong: a pod without containers is not ready
IsReadyNonEmpty(readyContainers, totalContainers) ==
    readyContainers = totalContainers /\ totalContainers > 0

\* ready := false; if readyContainers == totalContainers { ready = true }
IsReady(readyContainers, totalContainers) ==
    readyContainers = totalContainers

\* DeletionOverride gone wrong: the reason of a deleted pod is overridden only
\* when the node is lost
DeletionOverrideKeepsReason(p, ready, reason) ==
    IF p.DeletionTimestamp # Nil
    THEN [ready |-> FALSE,
          reason |-> IF p.Status.Reason = NodeUnreachablePodReason
                     THEN "Unknown" ELSE reason]
    ELSE [ready |-> ready, reason |-> reason]

\* if pod.DeletionTimestamp != nil { ready = false; reason = ... }
DeletionOverride(p, ready, reason) ==
    IF p.DeletionTimestamp # Nil
    THEN [ready |-> FALSE,
          reason |-> IF p.Status.Reason = NodeUnreachablePodReason
                     THEN "Unknown" ELSE "Terminating"]
    ELSE [ready |-> ready, reason |-> reason]

ComputePodStatus(p) ==
    LET totalContainers == Len(p.Spec.Containers)
        cs == p.Status.ContainerStatuses
        scan == ScanContainerStatuses(cs, Len(cs),
                    [restarts |-> 0, readyContainers |-> 0,
                     reason |-> InitialReason(p)])
        final == DeletionOverride(p,
                    IsReady(scan.readyContainers, totalContainers), scan.reason)
    IN  [Name            |-> p.Name,
         Ready           |-> final.ready,
         NodeName        |-> p.Spec.NodeName,
         ReadyContainers |-> Int32(scan.readyContainers),
         TotalContainers |-> Int32(totalContainers),
         Reason          |-> final.reason]

\* the zero value of lbapi.PodStatus
ZeroPodStatus ==
    [Name |-> "", Ready |-> FALSE, NodeName |-> "", ReadyContainers |-> 0,
     TotalContainers |-> 0, Reason |-> ""]

(* The pods the deriver is applied to. *)

ContainerState(waiting, running, terminated) ==
    [Waiting |-> waiting, Running |-> running, Terminated |-> terminated]

Waiting(reason) == Ref([Reason |-> reason])
Running == Ref([Started |-> TRUE])
Terminated(reason, signal, exitCode) ==
    Ref([Reason |-> reason, Signal |-> signal, ExitCode |-> exitCode])

ContainerStatusValues ==
    { [RestartCount |-> 0, Ready |-> FALSE,
       State |-> ContainerState(Waiting("ImagePullBackOff"), Nil, Nil)],
      [RestartCount |-> 0, Ready |-> FALSE,
       State |-> ContainerState(Waiting(""), Nil, Nil)],
      [RestartCount |-> 3, Ready |-> FALSE,
       State |-> ContainerState(Nil, Nil, Terminated("Error", 0, 1))],
      [RestartCount |-> 0, Ready |-> FALSE,
       State |-> ContainerState(Nil, Nil, Terminated("", 9, 137))],
      [RestartCount |-> 0, Ready |-> FALSE,
       State |-> ContainerState(Nil, Nil, Terminated("", 0, 2))],
      [RestartCount |-> 0, Ready |-> FALSE,
       State |-> ContainerState(Waiting(""), Nil, Terminated("Completed", 0, 0))],
      [RestartCount |-> 3, Ready |-> TRUE,
       State |-> ContainerState(Nil, Running, Nil)],
      [RestartCount |-> 0, Ready |-> FALSE,
       State |-> ContainerState(Nil, Running, Nil)],
      [RestartCount |-> 0, Ready |-> TRUE,
       State |-> ContainerState(Nil, Nil, Nil)] }

SeqsUpTo(S, n) == UNION { [1..k -> S] : k \in 0..n }

ContainerNames == <<"proxy", "provider", "sidecar", "metrics">>

SpecContainers(n) == [k \in 1..n |-> [Name |-> ContainerNames[k]]]

Pods ==
    { [Name |-> "lb-proxy-0",
       DeletionTimestamp |-> del,
       Spec |-> [NodeName |-> "node-a", Containers |-> SpecContainers(n)],
       Status |-> [Phase |-> phase, Reason |-> reason, ContainerStatuses |-> cs]] :
      del \in {Nil, Ref(1)},
      n \in 0..MaxContainers,
      phase \in {"Pending", "Running"},
      reason \in {"", NodeUnreachablePodReason, "Evicted"},
      cs \in SeqsUpTo(ContainerStatusValues, MaxStatuses) }

InitPod ==
    /\ pc = "start"
    /\ fn = "ComputePodStatus"
    /\ pod \in Pods
    /\ status = ZeroPodStatus
    /\ a = Unused /\ b = Unused /\ equal = Unused
    /\ lb = Unused /\ replicas = Unused /\ needNodeAffinity = Unused
    /\ value = Unused /\ namespace = Unused /\ name = Unused /\ err = Unused

CallComputePodStatus ==
    /\ pc = "start"
    /\ fn = "ComputePodStatus"
    /\ status' = ComputePodStatus(pod)
    /\ pc' = "done"
    /\ UNCHANGED <<fn, pod, equalVars, replicaVars, splitVars>>

NextPod == CallComputePodStatus

SpecPod == InitPod /\ [][NextPod]_vars

---------------------------------------------------------------------------
(* PodStatusesEqual, ProxyStatusEqual, IpvsdrProviderStatusEqual *)

\* reflect.DeepEqual of two values of one type built from strings, bools,
\* integers, structs and slices of these: equal field by field, element by
\* element
DeepEqual(x, y) == x = y

\* the zero value lbapi.PodStatuses{}
ZeroPodStatuses == [Replicas |-> 0, Statuses |-> Nil]

\* MatchInB gone wrong: a name match counts as equal, the fields are not
\* compared
MatchInBByNameOnly(as, bStatus, j) ==
    \E k \in j..Len(bStatus) : as.Name = bStatus[k].Name

\* the inner loop: equal := false; for _, bs := range bStatus { if as.Name ==
\* bs.Name { equal = reflect.DeepEqual(as, bs); break } }, from position j on
RECURSIVE MatchInB(_, _, _)
MatchInB(as, bStatus, j) ==
    IF j > Len(bStatus) THEN FALSE
    ELSE IF as.Name = bStatus[j].Name THEN DeepEqual(as, bStatus[j])
    ELSE MatchInB(as, bStatus, j + 1)

\* AllMatched gone wrong: the two lists compared element by element, in their
\* order
AllMatchedByPosition(aStatus, bStatus, i) ==
    \A k \in i..Len(aStatus) : k <= Len(bStatus) /\ DeepEqual(aStatus[k], bStatus[k])

\* the outer loop: for _, as := range aStatus { ...; if !equal { return false } }
\* return true, from position i on
RECURSIVE AllMatched(_, _, _)
AllMatched(aStatus, bStatus, i) ==
    IF i > Len(aStatus) THEN TRUE
    ELSE IF ~MatchInB(aStatus[i], bStatus, 1) THEN FALSE
    ELSE AllMatched(aStatus, bStatus, i + 1)

\* PodStatusesEqual gone wrong: the lengths of the two lists are not compared
PodStatusesEqualNoLengthCheck(x, y) ==
    IF ~DeepEqual([x EXCEPT !.Statuses = Nil], [y EXCEPT !.Statuses = Nil])
    THEN FALSE
    ELSE AllMatched(x.Statuses, y.Statuses, 1)

\* PodStatusesEqual gone wrong: b.Statuses = nil is missing, only a's list is
\* cleared
PodStatusesEqualOneSideCleared(x, y) ==
    IF Len(x.Statuses) # Len(y.Statuses) THEN FALSE
    ELSE IF ~DeepEqual([x EXCEPT !.Statuses = Nil], y) THEN FALSE
    ELSE AllMatched(x.Statuses, y.Statuses, 1)

PodStatusesEqual(x, y) ==
    LET aStatus == x.Statuses
        bStatus == y.Statuses
    IN  IF Len(aStatus) # Len(bStatus) THEN FALSE
        ELSE IF ~DeepEqual([x EXCEPT !.Statuses = Nil], [y EXCEPT !.Statuses = Nil])
        THEN FALSE
        ELSE AllMatched(aStatus, bStatus, 1)

ProxyStatusEqual(x, y) ==
    IF ~PodStatusesEqual(x.PodStatuses, y.PodStatuses) THEN FALSE
    ELSE DeepEqual([x EXCEPT !.PodStatuses = ZeroPodStatuses],
                   [y EXCEPT !.PodStatuses = ZeroPodStatuses])

IpvsdrProviderStatusEqual(x, y) ==
    IF ~PodStatusesEqual(x.PodStatuses, y.PodStatuses) THEN FALSE
    ELSE DeepEqual([x EXCEPT !.PodStatuses = ZeroPodStatuses],
                   [y EXCEPT !.PodStatuses = ZeroPodStatuses])

(* The aggregates the comparators are applied to. *)

PodNames == {"lb-proxy-0", "lb-proxy-1"}

\* the statuses of single pods, as ComputePodStatus builds them
PodStatusValues ==
    { [Name |-> n, Ready |-> r, NodeName |-> node, ReadyContainers |-> 1,
       TotalContainers |-> 1, Reason |-> reason] :
      n \in PodNames, r \in BOOLEAN, node \in {"node-a", "node-b"},
      reason \in {"Running", "ImagePullBackOff"} }

DistinctNames(s) ==
    \A i, j \in DOMAIN s : s[i].Name = s[j].Name => i = j

\* the lists of pod statuses of one aggregate: at most one status per pod, in
\* any order
StatusLists ==
    { s \in SeqsUpTo(PodStatusValues, Cardinality(PodNames)) : DistinctNames(s) }

PodStatusesValues ==
    { [Replicas |-> r, Statuses |-> s] : r \in {1, 2}, s \in StatusLists }

ProxyStatusValues ==
    { [PodStatuses |-> ps, Deployment |-> d] :
      ps \in PodStatusesValues, d \in {"lb-proxy-nginx", "lb-proxy-nginx-2"} }

IpvsdrProviderStatusValues ==
    { [PodStatuses |-> ps, Vip |-> v] :
      ps \in PodStatusesValues, v \in {"10.0.0.1", "10.0.0.2"} }

InitEqual ==
    /\ pc = "start"
    /\ \/ fn = "PodStatusesEqual"
          /\ a \in PodStatusesValues /\ b \in PodStatusesValues
       \/ fn = "ProxyStatusEqual"
          /\ a \in ProxyStatusValues /\ b \in ProxyStatusValues
       \/ fn = "IpvsdrProviderStatusEqual"
          /\ a \in IpvsdrProviderStatusValues /\ b \in IpvsdrProviderStatusValues
    /\ equal = FALSE
    /\ pod = Unused /\ status = Unused
    /\ lb = Unused /\ replicas = Unused /\ needNodeAffinity = Unused
    /\ value = Unused /\ namespace = Unused /\ name = Unused /\ err = Unused

\* the arguments are passed by value: clearing a.Statuses and b.Statuses
\* inside the function leaves the caller's a and b as they are
CallPodStatusesEqual ==
    /\ pc = "start"
    /\ fn = "PodStatusesEqual"
    /\ equal' = PodStatusesEqual(a, b)
    /\ pc' = "done"
    /\ UNCHANGED <<fn, a, b, podVars, replicaVars, splitVars>>

CallProxyStatusEqual ==
    /\ pc = "start"
    /\ fn = "ProxyStatusEqual"
    /\ equal' = ProxyStatusEqual(a, b)
    /\ pc' = "done"
    /\ UNCHANGED <<fn, a, b, podVars, replicaVars, splitVars>>

CallIpvsdrProviderStatusEqual ==
    /\ pc = "start"
    /\ fn = "IpvsdrProviderStatusEqual"
    /\ equal' = IpvsdrProviderStatusEqual(a, b)
    /\ pc' = "done"
    /\ UNCHANGED <<fn, a, b, podVars, replicaVars, splitVars>>

NextEqual ==
    \/ CallPodStatusesEqual
    \/ CallProxyStatusEqual
    \/ CallIpvsdrProviderStatusEqual

SpecEqual == InitEqual /\ [][NextEqual]_vars

---------------------------------------------------------------------------
(* CalculateReplicas *)

\* CalculateReplicas gone wrong: the node names override the replicas only
\* when none are declared
CalculateReplicasDeclaredWins(l) ==
    LET nodes == l.Spec.Nodes
    IN  IF nodes.Replicas # Nil
        THEN [replicas |-> Deref(nodes.Replicas),
              needNodeAffinity |-> Len(nodes.Names) # 0]
        ELSE IF Len(nodes.Names) # 0
        THEN [replicas |-> Int32(Len(nodes.Names)), needNodeAffinity |-> TRUE]
        ELSE [replicas |-> 0, needNodeAffinity |-> FALSE]

CalculateReplicas(l) ==
    LET nodes == l.Spec.Nodes
        declared == IF nodes.Replicas # Nil THEN Deref(nodes.Replicas) ELSE 0
    IN  IF Len(nodes.Names) # 0
        THEN [replicas |-> Int32(Len(nodes.Names)), needNodeAffinity |-> TRUE]
        ELSE [replicas |-> declared, needNodeAffinity |-> FALSE]

NodeNames == {"node-a", "node-b"}

LoadBalancers ==
    { [Spec |-> [Nodes |-> [Replicas |-> r, Names |-> names]]] :
      r \in {Nil} \cup { Ref(n) : n \in 0..MaxReplicas },
      names \in SeqsUpTo(NodeNames, MaxNodes) }

InitReplicas ==
    /\ pc = "start"
    /\ fn = "CalculateReplicas"
    /\ lb \in LoadBalancers
    /\ replicas = 0
    /\ needNodeAffinity = FALSE
    /\ pod = Unused /\ status = Unused
    /\ a = Unused /\ b = Unused /\ equal = Unused
    /\ value = Unused /\ namespace = Unused /\ name = Unused /\ err = Unused

CallCalculateReplicas ==
    /\ pc = "start"
    /\ fn = "CalculateReplicas"
    /\ replicas' = CalculateReplicas(lb).replicas
    /\ needNodeAffinity' = CalculateReplicas(lb).needNodeAffinity
    /\ pc' = "done"
    /\ UNCHANGED <<fn, lb, podVars, equalVars, splitVars>>

NextReplicas == CallCalculateReplicas

SpecReplicas == InitReplicas /\ [][NextReplicas]_vars

---------------------------------------------------------------------------
(* SplitNamespaceAndNameByDot *)

\* strings.Split(s, sep) for a separator of one character: the pieces of s
\* between the separators, one more piece than there are separators.  cur is
\* the piece being read and parts the pieces read, at position k of s
RECURSIVE SplitFrom(_, _, _, _, _)
SplitFrom(s, sep, k, cur, parts) ==
    IF k > Len(s) THEN Append(parts, cur)
    ELSE IF s[k] = sep THEN SplitFrom(s, sep, k + 1, <<>>, Append(parts, cur))
    ELSE SplitFrom(s, sep, k + 1, Append(cur, s[k]), parts)

Split(s, sep) == SplitFrom(s, sep, 1, <<>>, <<>>)

\* fmt.Errorf("unexpected format: %q", value)
Errorf(format, arg) == Ref([format |-> format, arg |-> arg])

\* SplitNamespaceAndNameByDot gone wrong: fewer than two parts is the only
\* error
SplitNamespaceAndNameByDotAtLeastTwo(v) ==
    LET parts == Split(v, ".")
    IN  IF Len(parts) < 2
        THEN [namespace |-> <<>>, name |-> <<>>,
              err |-> Errorf("unexpected format: %q", v)]
        ELSE [namespace |-> parts[1], name |-> parts[2], err |-> Nil]

SplitNamespaceAndNameByDot(v) ==
    LET parts == Split(v, ".")
    IN  IF Len(parts) # 2
        THEN [namespace |-> <<>>, name |-> <<>>,
              err |-> Errorf("unexpected format: %q", v)]
        ELSE [namespace |-> parts[1], name |-> parts[2], err |-> Nil]

Characters == {"n", "s", "."}

Identifiers == SeqsUpTo(Characters, MaxLen)

InitSplit ==
    /\ pc = "start"
    /\ fn = "SplitNamespaceAndNameByDot"
    /\ value \in Identifiers
    /\ namespace = <<>> /\ name = <<>> /\ err = Nil
    /\ pod = Unused /\ status = Unused
    /\ a = Unused /\ b = Unused /\ equal = Unused
    /\ lb = Unused /\ replicas = Unused /\ needNodeAffinity = Unused

CallSplitNamespaceAndNameByDot ==
    /\ pc = "start"
    /\ fn = "SplitNamespaceAndNameByDot"
    /\ namespace' = SplitNamespaceAndNameByDot(value).namespace
    /\ name' = SplitNamespaceAndNameByDot(value).name
    /\ err' = SplitNamespaceAndNameByDot(value).err
    /\ pc' = "done"
    /\ UNCHANGED <<fn, value, podVars, equalVars, replicaVars>>

NextSplit == CallSplitNamespaceAndNameByDot

SpecSplit == InitSplit /\ [][NextSplit]_vars

---------------------------------------------------------------------------
(* Properties of ComputePodStatus, checked under SpecPod. *)

Returned == pc = "done" /\ fn = "ComputePodStatus"

Deleted == pod.DeletionTimestamp # Nil

\* a container status that sets the reason: waiting with a non-empty reason,
\* or terminated
SetsReason(c) ==
    \/ c.State.Waiting # Nil /\ Deref(c.State.Waiting).Reason # ""
    \/ c.State.Terminated # Nil

\* the reason such a container status sets
ReasonSetBy(c) ==
    IF c.State.Waiting # Nil /\ Deref(c.State.Waiting).Reason # ""
    THEN Deref(c.State.Waiting).Reason
    ELSE IF Deref(c.State.Terminated).Reason # ""
    THEN Deref(c.State.Terminated).Reason
    ELSE IF Deref(c.State.Terminated).Signal # 0
    THEN "Signal:" \o ToString(Deref(c.State.Terminated).Signal)
    ELSE "ExitCode:" \o ToString(Deref(c.State.Terminated).ExitCode)

\* a container status that is counted as ready: it sets no reason, reports
\* itself ready and is running
CountedReady(c) == ~SetsReason(c) /\ c.Ready /\ c.State.Running # Nil

\* the positions (index 0 first is position 1) of the container statuses that
\* set a reason
Setters == { i \in DOMAIN pod.Status.ContainerStatuses :
                SetsReason(pod.Status.ContainerStatuses[i]) }

FirstSetter == CHOOSE i \in Setters : \A j \in Setters : i <= j
LastSetter  == CHOOSE i \in Setters : \A j \in Setters : j <= i

\* the reason of a pod none of whose containers sets one
PodLevelReason ==
    IF pod.Status.Reason # "" THEN pod.Status.Reason ELSE pod.Status.Phase

\* C2: a pod with a deletion marker is reported not ready, with reason
\* "Unknown" if and only if its status reason is NodeLost and "Terminating"
\* otherwise, whatever its phase, containers and container statuses; no
\* container reason survives.
C2_DeletionOverride ==
    (Returned /\ Deleted) =>
        /\ status.Ready = FALSE
        /\ status.Reason = "Unknown" <=> pod.Status.Reason = NodeUnreachablePodReason
        /\ pod.Status.Reason # NodeUnreachablePodReason => status.Reason = "Terminating"
        /\ status.Reason \in {"Unknown", "Terminating"}

\* C2, its case: a deleted pod one of whose containers sets a reason, and whose
\* containers are otherwise all ready, reported as terminating
C2_Witness ==
    /\ Returned /\ Deleted
    /\ Setters # {}
    /\ status.ReadyContainers = status.TotalContainers
    /\ status.Reason = "Terminating"

\* C3 as stated: without a deletion marker, when two or more container
\* statuses set a reason the one reported is that of the last of them in the
\* order observed; when none does it is the pod's status reason if non-empty,
\* else its phase.
C3_LastSetterWins ==
    (Returned /\ ~Deleted) =>
        /\ Cardinality(Setters) >= 2 =>
              status.Reason = ReasonSetBy(pod.Status.ContainerStatuses[LastSetter])
        /\ Setters = {} => status.Reason = PodLevelReason

\* C3 as amended: without a deletion marker, when two or more container
\* statuses set a reason the one reported is that of the first of them in the
\* order observed (the lowest index); when none does it is the pod's status
\* reason if non-empty, else its phase.
C3_FirstSetterWins ==
    (Returned /\ ~Deleted) =>
        /\ Cardinality(Setters) >= 2 =>
              status.Reason = ReasonSetBy(pod.Status.ContainerStatuses[FirstSetter])
        /\ Setters = {} => status.Reason = PodLevelReason

\* C3, its case: two containers set different reasons and the first one's is
\* reported
C3_Witness ==
    /\ Returned /\ ~Deleted
    /\ Cardinality(Setters) >= 2
    /\ ReasonSetBy(pod.Status.ContainerStatuses[FirstSetter])
          # ReasonSetBy(pod.Status.ContainerStatuses[LastSetter])
    /\ status.Reason = ReasonSetBy(pod.Status.ContainerStatuses[FirstSetter])

\* C4 as stated: for any list of spec containers and any, independently sized,
\* list of container statuses, ReadyContainers <= TotalContainers.
C4_ReadyAtMostTotal ==
    Returned =>
        /\ status.TotalContainers = Len(pod.Spec.Containers)
        /\ status.ReadyContainers <= status.TotalContainers

\* C4 as amended: for every pod that has at most as many container statuses as
\* its spec declares containers, ReadyContainers <= TotalContainers, where
\* TotalContainers is the number of containers declared in the pod spec.
C4_ReadyAtMostTotalWhenStatusesFit ==
    Returned =>
        /\ status.TotalContainers = Len(pod.Spec.Containers)
        /\ Len(pod.Status.ContainerStatuses) <= Len(pod.Spec.Containers) =>
              status.ReadyContainers <= status.TotalContainers

\* C4, its case: every declared container has a status and all are counted
C4_Witness ==
    /\ Returned
    /\ Len(pod.Status.ContainerStatuses) = Len(pod.Spec.Containers)
    /\ status.TotalContainers = MaxContainers
    /\ status.ReadyContainers = status.TotalContainers

\* C5 as stated: a pod whose spec declares zero containers is reported ready.
C5_ZeroContainersReady ==
    (Returned /\ Len(pod.Spec.Containers) = 0) => status.Ready = TRUE

\* C5 as amended: a pod whose spec declares zero containers is reported ready
\* if and only if it has no deletion marker and none of its container
\* statuses is counted as ready (in particular when it has none).
C5_ZeroContainersReadyUnlessDeletedOrCounted ==
    (Returned /\ Len(pod.Spec.Containers) = 0) =>
        (status.Ready = TRUE <=>
            /\ ~Deleted
            /\ \A i \in DOMAIN pod.Status.ContainerStatuses :
                  ~CountedReady(pod.Status.ContainerStatuses[i]))

\* C5, its case: no declared container, no deletion marker, reported ready
C5_Witness ==
    /\ Returned
    /\ Len(pod.Spec.Containers) = 0
    /\ ~Deleted
    /\ status.Ready = TRUE
    /\ status.TotalContainers = 0

---------------------------------------------------------------------------
(* Properties of the comparators, checked under SpecEqual. *)

Compared ==
    pc = "done" /\ fn \in {"PodStatusesEqual", "ProxyStatusEqual",
                           "IpvsdrProviderStatusEqual"}

\* the worker list of an argument of the function called
Workers(x) ==
    IF fn = "PodStatusesEqual" THEN x.Statuses ELSE x.PodStatuses.Statuses

\* the argument x with its worker list replaced by s, all else unchanged
WithWorkers(x, s) ==
    IF fn = "PodStatusesEqual" THEN [x EXCEPT !.Statuses = s]
    ELSE [x EXCEPT !.PodStatuses.Statuses = s]

\* the function called, applied to x and y
Comparator(x, y) ==
    CASE fn = "PodStatusesEqual" -> PodStatusesEqual(x, y)
      [] fn = "ProxyStatusEqual" -> ProxyStatusEqual(x, y)
      [] fn = "IpvsdrProviderStatusEqual" -> IpvsdrProviderStatusEqual(x, y)

\* the worker names of x are pairwise distinct
NamesDistinct(x) ==
    \A i, j \in DOMAIN Workers(x) :
        Workers(x)[i].Name = Workers(x)[j].Name => i = j

\* the reorderings of a list
Reorderings(s) ==
    { [i \in DOMAIN s |-> s[p[i]]] : p \in Permutations(DOMAIN s) }

\* u and v are the same worker but for exactly one of Ready, Reason, NodeName
OneFieldChanged(u, v) ==
    /\ u.Name = v.Name
    /\ u.ReadyContainers = v.ReadyContainers
    /\ u.TotalContainers = v.TotalContainers
    /\ Cardinality({ f \in {"Ready", "Reason", "NodeName"} : u[f] # v[f] }) = 1

\* y is x with exactly one of Ready, Reason, NodeName of exactly one worker
\* changed, every other field and worker the same, in any list order
OneWorkerChanged(x, y) ==
    /\ WithWorkers(x, Nil) = WithWorkers(y, Nil)
    /\ Len(Workers(x)) = Len(Workers(y))
    /\ \E i \in DOMAIN Workers(x), j \in DOMAIN Workers(y) :
          /\ OneFieldChanged(Workers(x)[i], Workers(y)[j])
          /\ { Workers(x)[k] : k \in DOMAIN Workers(x) \ {i} }
                = { Workers(y)[k] : k \in DOMAIN Workers(y) \ {j} }

\* C1: with pairwise distinct worker names in a and in b, every reordering of
\* a's worker list and every reordering of b's gives the result the call gave,
\* for each of the three comparators.
C1_OrderInsensitive ==
    (Compared /\ NamesDistinct(a) /\ NamesDistinct(b)) =>
        \A pa \in Reorderings(Workers(a)), pb \in Reorderings(Workers(b)) :
            Comparator(WithWorkers(a, pa), WithWorkers(b, pb)) = equal

\* C1, its case: b lists the workers of a in another order and the call
\* returned true
C1_Witness ==
    /\ Compared /\ fn = "ProxyStatusEqual"
    /\ NamesDistinct(a) /\ NamesDistinct(b)
    /\ Len(Workers(a)) = 2
    /\ Workers(b) \in Reorderings(Workers(a))
    /\ Workers(b) # Workers(a)
    /\ equal = TRUE

\* C6: with pairwise distinct worker names, when the two arguments differ in
\* exactly one of Ready, Reason, NodeName of exactly one worker and in nothing
\* else, the comparator returns false, whichever of the two comes first.
C6_OneWorkerChangeDetected ==
    (Compared /\ NamesDistinct(a) /\ NamesDistinct(b)
        /\ (OneWorkerChanged(a, b) \/ OneWorkerChanged(b, a))) =>
            /\ equal = FALSE
            /\ Comparator(b, a) = FALSE

\* C6, its case: two workers in different orders, one of them with another
\* node name, and the call returned false
C6_Witness ==
    /\ Compared /\ fn = "IpvsdrProviderStatusEqual"
    /\ NamesDistinct(a) /\ NamesDistinct(b)
    /\ OneWorkerChanged(a, b)
    /\ Len(Workers(a)) = 2
    /\ Workers(a)[1].Name = Workers(b)[2].Name
    /\ Workers(a)[1].NodeName # Workers(b)[2].NodeName
    /\ equal = FALSE

\* C7: an aggregate with pairwise distinct worker names (the empty list
\* included) compared with itself gives true, for each of the comparators.
C7_Reflexive ==
    (Compared /\ NamesDistinct(a) /\ a = b) => equal = TRUE

\* C7, its case: an aggregate of two workers compared with itself
C7_Witness ==
    /\ Compared /\ fn = "PodStatusesEqual"
    /\ NamesDistinct(a)
    /\ a = b
    /\ Len(Workers(a)) = 2
    /\ equal = TRUE

\* C10: with pairwise distinct worker names in a and in b the result does not
\* depend on the order of the arguments, and when it is true every worker of b
\* has a worker in a with the same name and equal fields.
C10_Symmetric ==
    (Compared /\ NamesDistinct(a) /\ NamesDistinct(b)) =>
        /\ Comparator(b, a) = equal
        /\ equal = TRUE =>
              \A j \in DOMAIN Workers(b) : \E i \in DOMAIN Workers(a) :
                  /\ Workers(a)[i].Name = Workers(b)[j].Name
                  /\ Workers(a)[i] = Workers(b)[j]

\* C10, its case: the search of b for the workers of a succeeded, with the two
\* lists in different orders
C10_Witness ==
    /\ Compared /\ fn = "PodStatusesEqual"
    /\ NamesDistinct(a) /\ NamesDistinct(b)
    /\ Len(Workers(a)) = 2
    /\ Workers(a) # Workers(b)
    /\ equal = TRUE

---------------------------------------------------------------------------
(* Properties of CalculateReplicas, checked under SpecReplicas. *)

\* C8: a non-empty node-name list gives (len(Names), true) whatever the
\* declared replicas; an empty one gives (Replicas, false) when Replicas is
\* set and (0, false) when it is not; needNodeAffinity is true if and only if
\* the list is non-empty.
C8_ReplicaPolicy ==
    (pc = "done" /\ fn = "CalculateReplicas") =>
        LET nodes == lb.Spec.Nodes
        IN  /\ Len(nodes.Names) > 0 =>
                  replicas = Len(nodes.Names) /\ needNodeAffinity = TRUE
            /\ (Len(nodes.Names) = 0 /\ nodes.Replicas # Nil) =>
                  replicas = nodes.Replicas[1] /\ needNodeAffinity = FALSE
            /\ (Len(nodes.Names) = 0 /\ nodes.Replicas = Nil) =>
                  replicas = 0 /\ needNodeAffinity = FALSE
            /\ needNodeAffinity = TRUE <=> Len(nodes.Names) # 0

\* C8, its case: three replicas declared and two nodes named gives (2, true)
C8_Witness ==
    /\ pc = "done" /\ fn = "CalculateReplicas"
    /\ lb.Spec.Nodes.Replicas = Ref(3)
    /\ Len(lb.Spec.Nodes.Names) = 2
    /\ replicas = 2
    /\ needNodeAffinity = TRUE

---------------------------------------------------------------------------
(* Properties of SplitNamespaceAndNameByDot, checked under SpecSplit. *)

\* the positions of the dots of the identifier
Dots == { i \in DOMAIN value : value[i] = "." }

\* C9: the call succeeds if and only if the value holds exactly one dot; it
\* then returns the text before the dot and the text after it (either may be
\* empty), so that namespace + "." + name = value; otherwise it returns an
\* error with an empty namespace and an empty name.
C9_SplitByOneDot ==
    (pc = "done" /\ fn = "SplitNamespaceAndNameByDot") =>
        /\ err = Nil <=> Cardinality(Dots) = 1
        /\ err = Nil =>
              \E d \in Dots :
                  /\ namespace = SubSeq(value, 1, d - 1)
                  /\ name = SubSeq(value, d + 1, Len(value))
                  /\ namespace \o <<".">> \o name = value
        /\ err # Nil => namespace = <<>> /\ name = <<>>

\* C9, its case: "ns.s" splits into "ns" and "s"
C9_Witness ==
    /\ pc = "done" /\ fn = "SplitNamespaceAndNameByDot"
    /\ value = <<"n", "s", ".", "s">>
    /\ err = Nil
    /\ namespace = <<"n", "s">>
    /\ name = <<"s">>

===========================================================================
